---- MODULE Spec2Model ----
(***************************************************************************)
(* serde_compact: the #[compact] attribute macro.  A declaration (struct   *)
(* or enum) is walked once by NameCollector, the collected names are       *)
(* sorted and given base-52 aliases by NameMapper::new / get_name, and the *)
(* declaration is walked again by NameMapper (Fold), which pushes a        *)
(* #[serde(rename = "<alias>")] attribute on every named field and every   *)
(* variant.                                                                *)
(*                                                                         *)
(* Strings (identifiers, aliases) are sequences of one-character strings.  *)
(***************************************************************************)
EXTENDS Integers, Sequences, FiniteSets, TLC

\* ------------------------------------------------------------------ bounds

\* Largest index handed to get_name in the encoder specification.
MaxIndex == 2710
\* Longest field list of a generated struct or variant body.
MaxFields == 2
\* Most variants of a generated enum.
MaxVariants == 2
\* Most invocations of the macro, one after the other, in SpecTwice.
MaxRuns == 2

\* ----------------------------------------------------------------- strings

\* The characters identifiers are made of, in increasing byte value.
Chars ==
    << "0", "1", "2", "3", "4", "5", "6", "7", "8", "9",
       "A", "B", "C", "D", "E", "F", "G", "H", "I", "J", "K", "L", "M",
       "N", "O", "P", "Q", "R", "S", "T", "U", "V", "W", "X", "Y", "Z",
       "_",
       "a", "b", "c", "d", "e", "f", "g", "h", "i", "j", "k", "l", "m",
       "n", "o", "p", "q", "r", "s", "t", "u", "v", "w", "x", "y", "z" >>

\* The byte (UTF-8 code unit) of each character of Chars.
Bytes ==
    [i \in 1..Len(Chars) |->
        IF i <= 10 THEN 47 + i
        ELSE IF i <= 36 THEN 54 + i
        ELSE IF i = 37 THEN 95
        ELSE 59 + i]

OrdTable == [c \in {Chars[i] : i \in 1..Len(Chars)} |->
                Bytes[CHOOSE i \in 1..Len(Chars) : Chars[i] = c]]

Ord(c) == OrdTable[c]

\* A "natural" order: the shorter string first, equal lengths byte-wise.
RECURSIVE StrLessShorterFirst(_, _)
StrLessShorterFirst(a, b) ==
    IF Len(a) # Len(b) THEN Len(a) < Len(b)
    ELSE IF a = <<>> THEN FALSE
    ELSE IF Ord(Head(a)) # Ord(Head(b)) THEN Ord(Head(a)) < Ord(Head(b))
    ELSE StrLessShorterFirst(Tail(a), Tail(b))

\* Ord for String (str): byte-wise lexicographic comparison, a proper
\* prefix being smaller.
RECURSIVE StrLess(_, _)
StrLess(a, b) ==
    IF b = <<>> THEN FALSE
    ELSE IF a = <<>> THEN TRUE
    ELSE IF Ord(Head(a)) < Ord(Head(b)) THEN TRUE
    ELSE IF Ord(Head(a)) > Ord(Head(b)) THEN FALSE
    ELSE StrLess(Tail(a), Tail(b))

\* The string is returned as it was pushed.
ReverseLeftOut(s) == s

\* name.chars().rev().collect()
RECURSIVE Reverse(_)
Reverse(s) == IF s = <<>> THEN <<>> ELSE Append(Reverse(Tail(s)), Head(s))

\* ---------------------------------------------------------------- get_name

ALPHABET ==
    << "a", "b", "c", "d", "e", "f", "g", "h", "i", "j", "k", "l", "m",
       "n", "o", "p", "q", "r", "s", "t", "u", "v", "w", "x", "y", "z",
       "A", "B", "C", "D", "E", "F", "G", "H", "I", "J", "K", "L", "M",
       "N", "O", "P", "Q", "R", "S", "T", "U", "V", "W", "X", "Y", "Z" >>

base == Len(ALPHABET)

\* A slip in the loop body: the quotient is taken before the digit.
LoopBodyDigitOfQuotient(value, name) ==
    [name  |-> Append(name, ALPHABET[((value \div base) % base) + 1]),
     value |-> value \div base]

\* The loop left as soon as one digit remains, which is then never pushed.
LoopExitBelowBase(value) == value < base

\* One iteration of the loop of get_name, up to its test:
\*     name.push(ALPHABET[value % base]);  value /= base;
LoopBody(value, name) ==
    [name  |-> Append(name, ALPHABET[(value % base) + 1]),
     value |-> value \div base]

\* The loop's exit test, made after the body.
LoopExit(value) == value = 0

RECURSIVE GetNameLoop(_, _)
GetNameLoop(value, name) ==
    LET n == LoopBody(value, name)
    IN  IF LoopExit(n.value) THEN n.name ELSE GetNameLoop(n.value, n.name)

\* get_name(value): the digits are pushed least significant first and the
\* string is reversed at the end.
GetName(value) == Reverse(GetNameLoop(value, <<>>))

\* ------------------------------------------------------------ declarations

\* Identifiers of the declarations of tests/compact.rs.
field10 == << "f", "i", "e", "l", "d", "1", "0" >>
field2 == << "f", "i", "e", "l", "d", "2" >>
Request == << "R", "e", "q", "u", "e", "s", "t" >>
Response == << "R", "e", "s", "p", "o", "n", "s", "e" >>
event_id == << "e", "v", "e", "n", "t", "_", "i", "d" >>
user_id == << "u", "s", "e", "r", "_", "i", "d" >>
ticket_type == << "t", "i", "c", "k", "e", "t", "_", "t", "y", "p", "e" >>
ConfirmEventReservation ==
    << "C", "o", "n", "f", "i", "r", "m", "E", "v", "e", "n", "t", "R",
       "e", "s", "e", "r", "v", "a", "t", "i", "o", "n" >>
CancelEventReservation ==
    << "C", "a", "n", "c", "e", "l", "E", "v", "e", "n", "t", "R", "e",
       "s", "e", "r", "v", "a", "t", "i", "o", "n" >>

\* Field.ident of a positional (tuple) field: None.
NoIdent == <<>>

\* An attribute: its path, and for #[serde(key = "lit")] the key and the
\* literal.  Attributes a declaration may carry before the macro runs:
DocAttr == [path |-> "doc", key |-> "", lit |-> <<>>]
AllowAttr == [path |-> "allow", key |-> "", lit |-> <<>>]

\* syn::Field: attrs, ident (None for a positional field) and ty.
MkField(ident, attrs, ty) == [ident |-> ident, attrs |-> attrs, ty |-> ty]

\* syn::Variant: attrs, ident and fields.
MkVariant(ident, attrs, fields) ==
    [ident |-> ident, attrs |-> attrs, fields |-> fields]

\* syn::Item: Item::Struct has fields, Item::Enum has variants.
MkStruct(fields) == [kind |-> "struct", fields |-> fields, variants |-> <<>>]
MkEnum(variants) == [kind |-> "enum", fields |-> <<>>, variants |-> variants]

\* enum CompactCallbackQuery of tests/compact.rs.
ReservationFields ==
    << MkField(event_id, <<>>, "i32"),
       MkField(user_id, <<>>, "i32"),
       MkField(ticket_type, <<>>, "i32") >>

CompactCallbackQuery ==
    MkEnum(<< MkVariant(ConfirmEventReservation, <<>>, ReservationFields),
              MkVariant(CancelEventReservation, <<>>, ReservationFields) >>)

\* The named fields generated declarations are built from (two names of
\* BigStruct), one of them already carrying attributes.
NamedFields ==
    { MkField(field10, << DocAttr, AllowAttr >>, "i32"),
      MkField(field2, <<>>, "String") }

PositionalFields == { MkField(NoIdent, << DocAttr >>, "i32") }

SeqsUpTo(S, n) == UNION { [1..k -> S] : k \in 0..n }

Distinct(s) == \A i, j \in 1..Len(s) : s[i] = s[j] => i = j

\* Field lists: named (no name twice), positional, or none (unit).
FieldLists ==
    { b \in SeqsUpTo(NamedFields, MaxFields) :
        Distinct([i \in 1..Len(b) |-> b[i].ident]) }
    \cup SeqsUpTo(PositionalFields, MaxFields)

Variants ==
    { MkVariant(Request, << DocAttr >>, b) : b \in FieldLists }
    \cup { MkVariant(Response, <<>>, b) : b \in FieldLists }

VariantLists ==
    { v \in SeqsUpTo(Variants, MaxVariants) :
        Distinct([i \in 1..Len(v) |-> v[i].ident]) }

\* The items the macro is applied to.
Items ==
    { MkStruct(b) : b \in FieldLists }
    \cup { MkEnum(v) : v \in VariantLists }
    \cup { CompactCallbackQuery }

\* --------------------------------------------------------------- traversal

\* The field at index fi of variant vi (of the struct itself when vi = 0).
FieldsAt(item, vi) ==
    IF vi = 0 THEN item.fields ELSE item.variants[vi].fields

FieldNodes(item, vi) ==
    [fi \in 1..Len(FieldsAt(item, vi)) |-> [kind |-> "field", vi |-> vi, fi |-> fi]]

RECURSIVE VariantNodes(_, _)
VariantNodes(item, vi) ==
    IF vi > Len(item.variants) THEN <<>>
    ELSE << [kind |-> "variant", vi |-> vi, fi |-> 0] >>
         \o FieldNodes(item, vi) \o VariantNodes(item, vi + 1)

\* The field and variant nodes of an item in the order visit_item and
\* fold_item reach them: a variant, then its fields.
Nodes(item) ==
    IF item.kind = "struct" THEN FieldNodes(item, 0) ELSE VariantNodes(item, 1)

\* ----------------------------------------------------------- NameCollector

\* A collector that forgets the variant's own name.
VisitVariantSkipsIdent(names, node) == names

\* visit_field: names.insert(ident) when the field has an ident.
VisitField(names, node) ==
    IF node.ident # NoIdent THEN names \cup {node.ident} ELSE names

\* visit_variant: names.insert(node.ident).
VisitVariant(names, node) == names \cup {node.ident}

\* -------------------------------------------------------------- NameMapper

Range(s) == { s[i] : i \in 1..Len(s) }

\* names.into_iter().collect(): the elements of the HashSet, each once, in
\* an order the hasher decides.
IterOrders(names) ==
    { v \in [1..Cardinality(names) -> names] : Range(v) = names }

RECURSIVE Insert(_, _)
Insert(sorted, x) ==
    IF sorted = <<>> THEN << x >>
    ELSE IF StrLess(x, Head(sorted)) THEN << x >> \o sorted
    ELSE << Head(sorted) >> \o Insert(Tail(sorted), x)

RECURSIVE SortFrom(_, _)
SortFrom(v, sorted) ==
    IF v = <<>> THEN sorted ELSE SortFrom(Tail(v), Insert(sorted, Head(v)))

\* The sort left out: the names keep the set's iteration order.
SortedNamesUnsorted(v) == v

\* sorted_names.sort(): ascending by Ord for String.
SortedNames(v) == SortFrom(v, <<>>)

\* Every name gets the alias of index 0: the enumeration index is not used.
AssignAliasesIndexUnused(sorted) ==
    [name \in Range(sorted) |-> GetName(0)]

\* for (idx, name) in sorted_names.into_iter().enumerate()
\*     { map.insert(name, get_name(idx)) }
\* idx counts from 0; a later insert of the same key replaces the earlier.
AssignAliases(sorted) ==
    [name \in Range(sorted) |->
        GetName((CHOOSE i \in 1..Len(sorted) :
                    sorted[i] = name /\ \A j \in (i+1)..Len(sorted) : sorted[j] # name) - 1)]

\* NameMapper::new(names), for one iteration order of the set.
NameMapperNew(v) == AssignAliases(SortedNames(v))

\* NameMapper { map } before new has run: no entry.
EmptyMap == [name \in {} |-> <<>>]

\* ------------------------------------------------------------------- Fold

\* format!("#[serde(rename = \"{}\")]", rename): the text before the alias,
\* the alias, the text after it.
FormatRename(rename) ==
    << "#[serde(rename = \"" >> \o rename \o << "\")]" >>

\* Attribute::parse_outer.parse_str(text): Ok with the one attribute the
\* text spells when the characters between the quotes are a string
\* literal's (no quote, no backslash), Err otherwise.
ParseOuter(text) ==
    LET lit == SubSeq(text, 2, Len(text) - 1)
    IN  IF /\ Len(text) >= 2
           /\ text[1] = "#[serde(rename = \""
           /\ text[Len(text)] = "\")]"
           /\ \A i \in 1..Len(lit) : lit[i] \notin {"\"", "\\"}
        THEN [ok |-> TRUE,
              attrs |-> << [path |-> "serde", key |-> "rename", lit |-> lit] >>]
        ELSE [ok |-> FALSE, attrs |-> <<>>]

\* The attribute is put in front of the node's own.
PushRenamePrepends(attrs, rename) ==
    LET parsed == ParseOuter(FormatRename(rename))
    IN  IF parsed.ok /\ parsed.attrs # <<>>
        THEN << parsed.attrs[Len(parsed.attrs)] >> \o attrs
        ELSE attrs

\* if let Ok(mut attrs) = parse_outer.parse_str(..)
\*     { if let Some(attr) = attrs.pop() { node.attrs.push(attr) } }
\* Nothing is pushed, and nothing reported, when the parse fails.
PushRename(attrs, rename) ==
    LET parsed == ParseOuter(FormatRename(rename))
    IN  IF parsed.ok /\ parsed.attrs # <<>>
        THEN Append(attrs, parsed.attrs[Len(parsed.attrs)])
        ELSE attrs

\* self.map.get(&ident.to_string()) is Some.
Mapped(map, ident) == ident \in DOMAIN map

\* The variant is given back as it came.
FoldVariantNoRename(map, node) == node

\* fold_field on a node whose name is in the map: a positional field is
\* returned as it is, a named one with the rename pushed.
FoldField(map, node) ==
    IF node.ident # NoIdent
    THEN [node EXCEPT !.attrs = PushRename(node.attrs, map[node.ident])]
    ELSE node

\* fold_variant on a node whose name is in the map (its fields are folded
\* afterwards, by fold::fold_variant).
FoldVariant(map, node) ==
    [node EXCEPT !.attrs = PushRename(node.attrs, map[node.ident])]

\* ------------------------------------------------- derive(Serialize, ...)

\* The name serde writes and reads for a field or variant: the literal of
\* its #[serde(rename = "..")] attribute, or else its identifier.
Renames(node) ==
    { i \in 1..Len(node.attrs) :
        node.attrs[i].path = "serde" /\ node.attrs[i].key = "rename" }

WireName(node) ==
    IF Renames(node) = {} THEN node.ident
    ELSE node.attrs[CHOOSE i \in Renames(node) : \A j \in Renames(node) : j <= i].lit

\* The values of an item: the variant (0 for a struct) and one number per
\* field of it.
FieldValues == 0..1

Values(item) ==
    IF item.kind = "struct"
    THEN { [ok |-> TRUE, variant |-> 0, vals |-> v] :
             v \in [1..Len(item.fields) -> FieldValues] }
    ELSE UNION { { [ok |-> TRUE, variant |-> vi, vals |-> v] :
                     v \in [1..Len(item.variants[vi].fields) -> FieldValues] } :
                 vi \in 1..Len(item.variants) }

\* A value that could not be read.
DeError == [ok |-> FALSE, variant |-> 0, vals |-> <<>>]

\* serde_json::to_string(&data): the variant's wire name as the tag of an
\* enum (none for a struct), then the fields in declaration order, each
\* under its wire name (a positional field under none).
SerializeFields(fields, vals) ==
    [i \in 1..Len(fields) |->
        [key |-> IF fields[i].ident = NoIdent THEN <<>> ELSE WireName(fields[i]),
         val |-> vals[i]]]

Serialize(item, data) ==
    [tag  |-> IF data.variant = 0 THEN <<>>
              ELSE WireName(item.variants[data.variant]),
     body |-> SerializeFields(FieldsAt(item, data.variant), data.vals)]

\* The field a key is read into: the first whose wire name it is, 0 when
\* there is none (the key is skipped).
FieldOfKey(fields, key) ==
    LET hits == { i \in 1..Len(fields) :
                    fields[i].ident # NoIdent /\ WireName(fields[i]) = key }
    IN  IF hits = {} THEN 0 ELSE CHOOSE i \in hits : \A j \in hits : i <= j

\* serde_json::from_str for one field list: positional fields are read in
\* order; named fields by key, a field met twice ("duplicate field") or
\* never ("missing field") being an error.
DeserializeFields(fields, body) ==
    IF \A i \in 1..Len(fields) : fields[i].ident = NoIdent
    THEN IF Len(body) = Len(fields)
         THEN [ok |-> TRUE, vals |-> [i \in 1..Len(body) |-> body[i].val]]
         ELSE [ok |-> FALSE, vals |-> <<>>]
    ELSE LET entries(i) == { e \in 1..Len(body) : FieldOfKey(fields, body[e].key) = i }
         IN  IF \A i \in 1..Len(fields) : Cardinality(entries(i)) = 1
             THEN [ok |-> TRUE,
                   vals |-> [i \in 1..Len(fields) |->
                                body[CHOOSE e \in entries(i) : TRUE].val]]
             ELSE [ok |-> FALSE, vals |-> <<>>]

\* serde_json::from_str(&ser): the variant is the first whose wire name is
\* the tag.
Deserialize(item, ser) ==
    LET hits == { vi \in 1..Len(item.variants) : WireName(item.variants[vi]) = ser.tag }
        vi == IF item.kind = "struct" THEN 0
              ELSE CHOOSE i \in hits : \A j \in hits : i <= j
    IN  IF item.kind = "enum" /\ hits = {} THEN DeError
        ELSE LET read == DeserializeFields(FieldsAt(item, vi), ser.body)
             IN  IF read.ok THEN [ok |-> TRUE, variant |-> vi, vals |-> read.vals]
                 ELSE DeError

\* ------------------------------------------------------------------ state

VARIABLES
    input,      \* the parsed Item the macro was given
    output,     \* the Item being folded; what the macro returns
    names,      \* collector.names
    map,        \* mapper.map
    pc,         \* "collect", "fold", "done", "tested", "panic"; "idle"
    cursor,     \* index in Nodes(input) of the node visited / folded next
    run,        \* which invocation of the macro this is
    prevInput,  \* the Item of the invocation before this one (NoItem: none)
    prevMap,    \* and the map it built
    data,       \* test_serde!: the value serialized,
    ser,        \*   the serialized form,
    de,         \*   the value read back
    encIdx,     \* get_name alone: the argument,
    encValue,   \*   `value`,
    encName,    \*   `name`,
    encPc       \*   "loop", "rev", "done"; "idle"

pipeVars == << input, output, names, map, pc, cursor, run, prevInput, prevMap >>
testVars == << data, ser, de >>
encVars == << encIdx, encValue, encName, encPc >>
vars == << pipeVars, testVars, encVars >>

NoSer == [tag |-> <<>>, body |-> <<>>]
NoItem == [kind |-> "none", fields |-> <<>>, variants |-> <<>>]

\* compact(): the item is parsed and the collector is made, names empty.
Init ==
    /\ input \in Items
    /\ output = input
    /\ names = {}
    /\ map = EmptyMap
    /\ pc = "collect"
    /\ cursor = 1
    /\ run = 1
    /\ prevInput = NoItem
    /\ prevMap = EmptyMap
    /\ data = DeError /\ ser = NoSer /\ de = DeError
    /\ encIdx = 0 /\ encValue = 0 /\ encName = <<>> /\ encPc = "idle"

NodeAt(item, n) ==
    IF n.kind = "variant" THEN item.variants[n.vi] ELSE FieldsAt(item, n.vi)[n.fi]

\* collector.visit_item reaches a field.
CollectField ==
    /\ pc = "collect"
    /\ cursor <= Len(Nodes(input))
    /\ Nodes(input)[cursor].kind = "field"
    /\ names' = VisitField(names, NodeAt(input, Nodes(input)[cursor]))
    /\ cursor' = cursor + 1
    /\ UNCHANGED << input, output, map, pc, run, prevInput, prevMap, testVars, encVars >>

\* collector.visit_item reaches a variant.
CollectVariant ==
    /\ pc = "collect"
    /\ cursor <= Len(Nodes(input))
    /\ Nodes(input)[cursor].kind = "variant"
    /\ names' = VisitVariant(names, NodeAt(input, Nodes(input)[cursor]))
    /\ cursor' = cursor + 1
    /\ UNCHANGED << input, output, map, pc, run, prevInput, prevMap, testVars, encVars >>

\* let mut mapper = NameMapper::new(collector.names), the visit being over.
NewMapper ==
    /\ pc = "collect"
    /\ cursor > Len(Nodes(input))
    /\ \E v \in IterOrders(names) : map' = NameMapperNew(v)
    /\ pc' = "fold"
    /\ cursor' = 1
    /\ UNCHANGED << input, output, names, run, prevInput, prevMap, testVars, encVars >>

\* The item with the node at n replaced.
WithNode(item, n, node) ==
    IF n.kind = "variant" THEN [item EXCEPT !.variants[n.vi] = node]
    ELSE IF n.vi = 0 THEN [item EXCEPT !.fields[n.fi] = node]
    ELSE [item EXCEPT !.variants[n.vi].fields[n.fi] = node]

\* mapper.fold_item reaches a field: .expect("Failed to find mapping")
\* panics when a named field is not in the map.
RewriteField ==
    /\ pc = "fold"
    /\ cursor <= Len(Nodes(output))
    /\ Nodes(output)[cursor].kind = "field"
    /\ LET n == Nodes(output)[cursor]
           node == NodeAt(output, n)
       IN  IF node.ident # NoIdent /\ ~Mapped(map, node.ident)
           THEN pc' = "panic" /\ UNCHANGED << output, cursor >>
           ELSE /\ output' = WithNode(output, n, FoldField(map, node))
                /\ cursor' = cursor + 1
                /\ pc' = pc
    /\ UNCHANGED << input, names, map, run, prevInput, prevMap, testVars, encVars >>

\* mapper.fold_item reaches a variant.
RewriteVariant ==
    /\ pc = "fold"
    /\ cursor <= Len(Nodes(output))
    /\ Nodes(output)[cursor].kind = "variant"
    /\ LET n == Nodes(output)[cursor]
           node == NodeAt(output, n)
       IN  IF ~Mapped(map, node.ident)
           THEN pc' = "panic" /\ UNCHANGED << output, cursor >>
           ELSE /\ output' = WithNode(output, n, FoldVariant(map, node))
                /\ cursor' = cursor + 1
                /\ pc' = pc
    /\ UNCHANGED << input, names, map, run, prevInput, prevMap, testVars, encVars >>

\* TokenStream::from(quote!(#output)): the folded item is returned.
Emit ==
    /\ pc = "fold"
    /\ cursor > Len(Nodes(output))
    /\ pc' = "done"
    /\ UNCHANGED << input, output, names, map, cursor, run, prevInput, prevMap,
                    testVars, encVars >>

\* test_serde!($t, $data) on the returned declaration.
TestSerde ==
    /\ pc = "done"
    /\ \E d \in Values(output) :
          /\ data' = d
          /\ ser' = Serialize(output, d)
          /\ de' = Deserialize(output, Serialize(output, d))
    /\ pc' = "tested"
    /\ UNCHANGED << input, output, names, map, cursor, run, prevInput, prevMap, encVars >>

Next ==
    \/ CollectField
    \/ CollectVariant
    \/ NewMapper
    \/ RewriteField
    \/ RewriteVariant
    \/ Emit
    \/ TestSerde

\* One invocation of the macro, and a test of the declaration it returns.
Spec == Init /\ [][Next]_vars

\* The names of an item, as a collector gathers them.
RECURSIVE CollectFrom(_, _, _)
CollectFrom(item, k, acc) ==
    IF k > Len(Nodes(item)) THEN acc
    ELSE CollectFrom(item, k + 1,
            IF Nodes(item)[k].kind = "variant"
            THEN VisitVariant(acc, NodeAt(item, Nodes(item)[k]))
            ELSE VisitField(acc, NodeAt(item, Nodes(item)[k])))

\* The macro is invoked again, on an item with the same names as the one it
\* has just returned (the same fields and variants in another order, or
\* spread differently over the variants): a new collector, a new mapper.
NextItem ==
    /\ pc = "done"
    /\ run < MaxRuns
    /\ \E item \in Items :
          /\ CollectFrom(item, 1, {}) = names
          /\ input' = item
          /\ output' = item
    /\ names' = {}
    /\ map' = EmptyMap
    /\ pc' = "collect"
    /\ cursor' = 1
    /\ run' = run + 1
    /\ prevInput' = input
    /\ prevMap' = map
    /\ UNCHANGED << testVars, encVars >>

NextTwice ==
    \/ CollectField
    \/ CollectVariant
    \/ NewMapper
    \/ RewriteField
    \/ RewriteVariant
    \/ Emit
    \/ NextItem

\* Invocations of the macro one after the other.
SpecTwice == Init /\ [][NextTwice]_vars

\* --------------------------------------------------------- get_name alone

Idle ==
    /\ input = NoItem /\ output = NoItem /\ names = {} /\ map = EmptyMap
    /\ pc = "idle" /\ cursor = 1 /\ run = 1 /\ prevInput = NoItem /\ prevMap = EmptyMap
    /\ data = DeError /\ ser = NoSer /\ de = DeError

\* get_name(value) is entered: name = "".
EncInit ==
    /\ Idle
    /\ encIdx \in 0..MaxIndex
    /\ encValue = encIdx
    /\ encName = <<>>
    /\ encPc = "loop"

\* One turn of the loop.
EncLoop ==
    /\ encPc = "loop"
    /\ LET n == LoopBody(encValue, encName)
       IN  /\ encValue' = n.value
           /\ encName' = n.name
           /\ encPc' = IF LoopExit(n.value) THEN "rev" ELSE "loop"
    /\ UNCHANGED << encIdx, pipeVars, testVars >>

\* name.chars().rev().collect() is returned.
EncReturn ==
    /\ encPc = "rev"
    /\ encName' = Reverse(encName)
    /\ encPc' = "done"
    /\ UNCHANGED << encIdx, encValue, pipeVars, testVars >>

EncNext == EncLoop \/ EncReturn

SpecEnc == EncInit /\ [][EncNext]_vars

\* ----------------------------------------------------------------- claims

\* The mapper has been built for the current item.
MapBuilt == pc \in {"fold", "done", "tested"}

\* The macro has returned the folded item.
Returned == pc \in {"done", "tested"}

\* The distinct names of an item, read off the declaration: the ident of
\* every variant and of every named field.
DeclNames(item) ==
    { NodeAt(item, Nodes(item)[k]).ident : k \in 1..Len(Nodes(item)) } \ {NoIdent}

\* The node is one the rewrite has to rename: a variant or a named field.
Renamed(item, n) == NodeAt(item, n).ident # NoIdent

TwoVariantsSameFields ==
    MkEnum(<< MkVariant(Request, << DocAttr >>,
                  << MkField(field10, << DocAttr, AllowAttr >>, "i32"),
                     MkField(field2, <<>>, "String") >>),
              MkVariant(Response, <<>>,
                  << MkField(field2, <<>>, "String"),
                     MkField(field10, << DocAttr, AllowAttr >>, "i32") >>) >>)

\* C1: once NameMapper::new has run, the map has exactly one entry per
\* distinct name of the declaration (n entries for n names, none for an
\* empty declaration) and no two names have the same alias.
C1_Bijection ==
    MapBuilt =>
        /\ DOMAIN map = DeclNames(input)
        /\ Cardinality(DOMAIN map) = Cardinality(DeclNames(input))
        /\ Cardinality({ map[a] : a \in DOMAIN map }) = Cardinality(DeclNames(input))
        /\ \A a, b \in DOMAIN map : map[a] = map[b] => a = b

\* An enum whose two variants have the same two fields: six named nodes,
\* four distinct names, four aliases.
C1_Witness ==
    /\ pc = "done"
    /\ input = TwoVariantsSameFields
    /\ Cardinality({ map[a] : a \in DOMAIN map }) = 4

\* The wire names of the named nodes of a list of nodes are pairwise distinct.
WireDistinct(list) ==
    \A i, j \in 1..Len(list) :
        (list[i].ident # NoIdent /\ list[j].ident # NoIdent
            /\ WireName(list[i]) = WireName(list[j])) => i = j

\* C2: a value serialized under the returned declaration and read back under
\* it is the value itself; in the returned declaration the aliases of the
\* fields of every struct and variant body are pairwise distinct, and so are
\* the aliases of the variants of an enum.
C2_RoundTrip ==
    /\ pc = "tested" => de = data
    /\ Returned =>
        /\ WireDistinct(output.fields)
        /\ WireDistinct(output.variants)
        /\ \A vi \in 1..Len(output.variants) : WireDistinct(output.variants[vi].fields)

\* A value of the second variant of a two-variant enum, its two fields
\* holding different numbers, has been written and read back.
C2_Witness ==
    /\ pc = "tested"
    /\ input = TwoVariantsSameFields
    /\ data = [ok |-> TRUE, variant |-> 2, vals |-> << 0, 1 >>]
    /\ de = data

\* C3: an invocation on an item with the same distinct names as the item of
\* the invocation before builds the same map, whatever the order of the
\* fields and variants and whatever order the set is iterated in.
C3_Determinism ==
    (MapBuilt /\ prevInput # NoItem /\ DeclNames(input) = DeclNames(prevInput))
        => map = prevMap

\* The same enum twice, the second time with its variants and their fields
\* in the opposite order.
C3_Witness ==
    /\ pc = "done"
    /\ prevInput = TwoVariantsSameFields
    /\ input = MkEnum(<< MkVariant(Response, <<>>,
                             << MkField(field10, << DocAttr, AllowAttr >>, "i32"),
                                MkField(field2, <<>>, "String") >>),
                         MkVariant(Request, << DocAttr >>,
                             << MkField(field2, <<>>, "String"),
                                MkField(field10, << DocAttr, AllowAttr >>, "i32") >>) >>)
    /\ map = prevMap

\* a is before b byte by byte: at the first place they differ a has the
\* smaller byte, or a ends there and b does not.
CodeUnitLess(a, b) ==
    \E k \in 1..Len(b) :
        /\ k <= Len(a) + 1
        /\ \A i \in 1..(k - 1) : a[i] = b[i]
        /\ (k = Len(a) + 1 \/ Ord(a[k]) < Ord(b[k]))

Rank(name, set) == Cardinality({ m \in set : CodeUnitLess(m, name) })

Str(c) == << c >>

\* C4: the alias of a name is get_name of its 0-based rank among the
\* declaration's distinct names in byte-wise order, variants and fields
\* ranked together: field10 before field2, Request and Response before both;
\* CompactCallbackQuery gets Cancel.. -> a, Confirm.. -> b, event_id -> c,
\* ticket_type -> d, user_id -> e, and ConfirmEventReservation {event_id: 1,
\* user_id: 1, ticket_type: 0} is written {"b":{"c":1,"e":1,"d":0}}.
C4_RankOrder ==
    /\ MapBuilt =>
        /\ \A name \in DOMAIN map : map[name] = GetName(Rank(name, DeclNames(input)))
        /\ (field10 \in DOMAIN map /\ field2 \in DOMAIN map)
              => Rank(field10, DOMAIN map) < Rank(field2, DOMAIN map)
        /\ input = MkStruct(<< MkField(field2, <<>>, "String"),
                               MkField(field10, << DocAttr, AllowAttr >>, "i32") >>)
              => (map[field10] = Str("a") /\ map[field2] = Str("b"))
        /\ \A v \in {Request, Response} \cap DOMAIN map :
              \A f \in {field10, field2} \cap DOMAIN map :
                  Rank(v, DOMAIN map) < Rank(f, DOMAIN map)
        /\ input = CompactCallbackQuery =>
              /\ DOMAIN map = { CancelEventReservation, ConfirmEventReservation,
                                event_id, ticket_type, user_id }
              /\ map[CancelEventReservation] = Str("a")
              /\ map[ConfirmEventReservation] = Str("b")
              /\ map[event_id] = Str("c")
              /\ map[ticket_type] = Str("d")
              /\ map[user_id] = Str("e")
    /\ (/\ pc = "tested"
        /\ input = CompactCallbackQuery
        /\ data = [ok |-> TRUE, variant |-> 1, vals |-> << 1, 1, 0 >>])
        => ser = [tag  |-> Str("b"),
                  body |-> << [key |-> Str("c"), val |-> 1],
                              [key |-> Str("e"), val |-> 1],
                              [key |-> Str("d"), val |-> 0] >>]

\* The value of tests/compact.rs has been serialized.
C4_Witness ==
    /\ pc = "tested"
    /\ input = CompactCallbackQuery
    /\ data = [ok |-> TRUE, variant |-> 1, vals |-> << 1, 1, 0 >>]
    /\ ser.tag = Str("b")

\* The rename attributes among a node's attributes.
RenameAttrs(node) == { i \in 1..Len(node.attrs) :
                         node.attrs[i].path = "serde" /\ node.attrs[i].key = "rename" }

\* C5: in the returned declaration every variant and every named field has
\* one attribute more than in the input, exactly one of its attributes is a
\* rename, and the rename's value is the alias of the node's own name; two
\* nodes of the same name have the same alias.
C5_RenameAttached ==
    Returned =>
        /\ Len(Nodes(output)) = Len(Nodes(input))
        /\ \A k \in 1..Len(Nodes(input)) :
              LET n == Nodes(input)[k]
                  old == NodeAt(input, n)
                  new == NodeAt(output, n)
              IN  Renamed(input, n) =>
                    /\ Len(new.attrs) = Len(old.attrs) + 1
                    /\ Cardinality(RenameAttrs(new)) = 1
                    /\ \A i \in RenameAttrs(new) : new.attrs[i].lit = map[old.ident]
        /\ \A k, l \in 1..Len(Nodes(output)) :
              LET a == NodeAt(output, Nodes(output)[k])
                  b == NodeAt(output, Nodes(output)[l])
              IN  (a.ident # NoIdent /\ a.ident = b.ident) => WireName(a) = WireName(b)

\* field10 is in both variants, with the same rename in both, and the
\* variants are renamed too.
C5_Witness ==
    /\ pc = "done"
    /\ input = TwoVariantsSameFields
    /\ WireName(output.variants[1].fields[1]) = WireName(output.variants[2].fields[2])
    /\ WireName(output.variants[1].fields[1]) = map[field10]
    /\ WireName(output.variants[2]) = map[Response]

\* The attributes of a list that are not renames, in their order.
RECURSIVE NotRenames(_)
NotRenames(attrs) ==
    IF attrs = <<>> THEN <<>>
    ELSE IF Head(attrs).path = "serde" /\ Head(attrs).key = "rename"
         THEN NotRenames(Tail(attrs))
         ELSE << Head(attrs) >> \o NotRenames(Tail(attrs))

EraseField(f) == [f EXCEPT !.attrs = NotRenames(f.attrs)]

EraseFields(fields) == [i \in 1..Len(fields) |-> EraseField(fields[i])]

\* The item without its rename attributes.
Erase(item) ==
    [kind |-> item.kind,
     fields |-> EraseFields(item.fields),
     variants |-> [vi \in 1..Len(item.variants) |->
                     [ident |-> item.variants[vi].ident,
                      attrs |-> NotRenames(item.variants[vi].attrs),
                      fields |-> EraseFields(item.variants[vi].fields)]]]

\* C6: at every step of the rewrite the item differs from the input by rename
\* attributes only (same idents, types, order and nesting, the attributes
\* the nodes came with all there and in their order); a positional field
\* is what it was; and the attributes a node came with are before the
\* rename pushed on it.
C6_Passthrough ==
    /\ Erase(output) = input
    /\ Len(Nodes(output)) = Len(Nodes(input))
    /\ \A k \in 1..Len(Nodes(input)) :
          LET n == Nodes(input)[k]
              old == NodeAt(input, n)
              new == NodeAt(output, n)
          IN  /\ new.ident = old.ident
              /\ ~Renamed(input, n) => new = old
              /\ SubSeq(new.attrs, 1, Len(old.attrs)) = old.attrs

\* A variant and a field that came with attributes have been renamed, and
\* a variant with positional fields has been returned.
C6_Witness ==
    /\ pc = "done"
    /\ input = MkEnum(<< MkVariant(Request, << DocAttr >>,
                             << MkField(field10, << DocAttr, AllowAttr >>, "i32") >>),
                         MkVariant(Response, <<>>,
                             << MkField(NoIdent, << DocAttr >>, "i32") >>) >>)
    /\ Len(output.variants[1].attrs) = 2
    /\ Len(output.variants[1].fields[1].attrs) = 3
    /\ output.variants[2].fields = input.variants[2].fields

\* C10: the fold never panics on a lookup: while it runs, and after, the map
\* holds the name of every variant and named field of the item, which are
\* the names the collector gathered; and no attribute has been pushed while
\* the names are still being collected.
C10_LookupsSucceed ==
    /\ pc # "panic"
    /\ MapBuilt =>
        /\ DOMAIN map = names
        /\ \A k \in 1..Len(Nodes(output)) :
              Renamed(output, Nodes(output)[k])
                 => Mapped(map, NodeAt(output, Nodes(output)[k]).ident)
    /\ pc = "collect" => (output = input /\ map = EmptyMap)
    /\ output # input => MapBuilt

\* In the middle of the fold: some nodes renamed, some still to be looked up.
C10_Witness ==
    /\ pc = "fold"
    /\ input = TwoVariantsSameFields
    /\ cursor = 4
    /\ output # input

\* The digit a symbol stands for: a = 0, .., z = 25, A = 26, .., Z = 51.
DigitOf(c) == (CHOOSE i \in 1..Len(ALPHABET) : ALPHABET[i] = c) - 1

\* The number a string of symbols writes in base 52, most significant
\* digit first.
RECURSIVE NumberOf(_, _)
NumberOf(s, acc) ==
    IF s = <<>> THEN acc ELSE NumberOf(Tail(s), acc * 52 + DigitOf(Head(s)))

RECURSIVE Pow52(_)
Pow52(k) == IF k = 0 THEN 1 ELSE 52 * Pow52(k - 1)

\* The number of strings over the alphabet of length 1..k.
RECURSIVE StringsUpTo(_)
StringsUpTo(k) == IF k = 0 THEN 0 ELSE Pow52(k) + StringsUpTo(k - 1)

\* C8: get_name(i) is i written in base 52 with the digits a..z, A..Z, most
\* significant first, without a leading a (unless it is the only digit),
\* never empty; 0 is "a", 51 is "Z", 52 is "ba".
C8_Base52 ==
    encPc = "done" =>
        /\ encName # <<>>
        /\ \A k \in 1..Len(encName) : \E i \in 1..52 : ALPHABET[i] = encName[k]
        /\ NumberOf(encName, 0) = encIdx
        /\ Len(encName) > 1 => encName[1] # "a"
        /\ encIdx = 0 => encName = << "a" >>
        /\ encIdx = 51 => encName = << "Z" >>
        /\ encIdx = 52 => encName = << "b", "a" >>

\* get_name(52) has returned "ba".
C8_Witness ==
    /\ encPc = "done"
    /\ encIdx = 52
    /\ encName = << "b", "a" >>

\* C9, as claimed: the length of get_name(i) is the smallest k such that
\* there are more than i strings of length 1..k over the alphabet.
C9_MinimalLength ==
    encPc = "done" =>
        /\ StringsUpTo(Len(encName)) > encIdx
        /\ StringsUpTo(Len(encName) - 1) <= encIdx

\* C9, amended: the length of get_name(i) is the smallest k >= 1 with
\* 52^k > i, the length of i in ordinary base 52; a string of two or more
\* symbols that starts with a is never returned.
C9_PositionalLength ==
    encPc = "done" =>
        /\ Len(encName) >= 1
        /\ Pow52(Len(encName)) > encIdx
        /\ Len(encName) > 1 => Pow52(Len(encName) - 1) <= encIdx
        /\ Len(encName) > 1 => encName[1] # "a"

\* get_name(2704) has returned a string of three symbols, though only 2704
\* of the 2756 strings of one or two symbols are used below it.
C9_Witness ==
    /\ encPc = "done"
    /\ encIdx = 2704
    /\ Len(encName) = 3
    /\ StringsUpTo(2) > encIdx

====
